---- MODULE Spec2Model ----
(***************************************************************************)
(* Blood-donation registration server (server/server.js with its Stats and *)
(* Donor models): the donor collection, the singleton Stats document and  *)
(* the four API routes, as a state machine over the MongoDB collections.  *)
(*                                                                         *)
(* Granularity: a JavaScript handler runs without interruption up to its  *)
(* next await, and a MongoDB single-document operation is atomic, so one  *)
(* action is "the awaited storage operation takes effect and the handler  *)
(* runs on to its next await (or to its response)".                       *)
(***************************************************************************)
EXTENDS Integers, Sequences, FiniteSets, Bags, TLC

\* ------------------------------------------------------------------ bounds
MaxDonors == 2      \* registrations admitted past the route's own checks
MaxTime == 1        \* the clock (Date.now(), in ticks) runs 0..MaxTime
MaxIntervals == 3   \* refresh intervals the dashboard page is followed for
NumReq == 2         \* requests that can be awaiting storage at once

\* ------------------------------------------------- JavaScript values
\* A request-body value: undefined, a number (whole + frac/10) or a string
\* (a sequence of one-character strings).
Undef == [t |-> "undefined", n |-> 0, f |-> 0, s |-> <<>>]
Num(w, fr) == [t |-> "number", n |-> w, f |-> fr, s |-> <<>>]
Str(cs) == [t |-> "string", n |-> 0, f |-> 0, s |-> cs]

NaN == [nan |-> TRUE, v |-> 0]
Parsed(i) == [nan |-> FALSE, v |-> i]

\* !x of JavaScript is ~Truthy(x)
Truthy(x) ==
    CASE x.t = "undefined" -> FALSE
      [] x.t = "number" -> ~(x.n = 0 /\ x.f = 0)
      [] OTHER -> Len(x.s) > 0

WhiteSpace == {" "}
Digits == {"0", "1", "2", "3", "4", "5", "6", "7", "8", "9"}
DigitVal(c) ==
    CASE c = "0" -> 0 [] c = "1" -> 1 [] c = "2" -> 2 [] c = "3" -> 3
      [] c = "4" -> 4 [] c = "5" -> 5 [] c = "6" -> 6 [] c = "7" -> 7
      [] c = "8" -> 8 [] OTHER -> 9

RECURSIVE DropLeadingWs(_)
DropLeadingWs(cs) ==
    IF cs # <<>> /\ Head(cs) \in WhiteSpace THEN DropLeadingWs(Tail(cs)) ELSE cs

RECURSIVE DropTrailingWs(_)
DropTrailingWs(cs) ==
    IF cs # <<>> /\ cs[Len(cs)] \in WhiteSpace
    THEN DropTrailingWs(SubSeq(cs, 1, Len(cs) - 1))
    ELSE cs

\* String.prototype.trim
Trim(cs) == DropTrailingWs(DropLeadingWs(cs))

\* the value of the longest digit prefix of cs, acc the digits read so far
RECURSIVE DigitPrefix(_, _, _)
DigitPrefix(cs, acc, seen) ==
    IF cs # <<>> /\ Head(cs) \in Digits
    THEN DigitPrefix(Tail(cs), 10 * acc + DigitVal(Head(cs)), TRUE)
    ELSE IF seen THEN Parsed(acc) ELSE NaN

\* parseInt(x): x is turned into a string, leading white space and a sign
\* are skipped and the longest digit prefix is read; a number's string form
\* starts with its whole part, so its fraction is dropped.
ParseInt(x) ==
    CASE x.t = "undefined" -> NaN
      [] x.t = "number" -> Parsed(x.n)
      [] OTHER ->
           LET cs == DropLeadingWs(x.s) IN
           IF cs # <<>> /\ Head(cs) = "-"
           THEN LET r == DigitPrefix(Tail(cs), 0, FALSE) IN
                IF r.nan THEN NaN ELSE Parsed(0 - r.v)
           ELSE DigitPrefix(cs, 0, FALSE)

\* ------------------------------------------------------ the two schemas
validBloodGroups ==
    { <<"A", "+">>, <<"A", "-">>, <<"B", "+">>, <<"B", "-">>,
      <<"A", "B", "+">>, <<"A", "B", "-">>, <<"O", "+">>, <<"O", "-">> }
validYears ==
    { <<"F", "Y">>, <<"S", "Y">>, <<"T", "Y">>,
      <<"F", "i", "n", "a", "l", " ", "Y", "e", "a", "r">> }
MinAge == 18
MaxAge == 65
MinNameLength == 2
DefaultLimit == 10
\* the popup's setTimeout delay in refresh intervals: 10000 ms / 5000 ms
ThankYouTicks == 2

\* a bug: any string passes the membership test
IncludesAnyString(set, x) == x.t = "string"

\* Array.prototype.includes compares with strict equality: only a string
\* can be found in an array of strings
Includes(set, x) == x.t = "string" /\ x.s \in set

\* ----------------------------------------------------------- documents
NoDoc == [id |-> 0, fullName |-> <<>>, bloodGroup |-> <<>>, age |-> 0,
          year |-> <<>>, donatedAt |-> 0]

\* new Donor({...}): the schema casts the fields (fullName: trim) and sets
\* the default donatedAt = Date.now() when the document is constructed
NewDonor(fullName, bloodGroup, age, year, clock) ==
    [id |-> 0, fullName |-> Trim(fullName), bloodGroup |-> bloodGroup,
     age |-> age, year |-> year, donatedAt |-> clock]

\* a bug: the schema without minlength
NameErrorsNoMinLength(d) ==
    IF Len(d.fullName) = 0 THEN << "Full name is required" >> ELSE << >>

\* the validators of donorSchema, one message for each failing path
NameErrors(d) ==
    IF Len(d.fullName) = 0 THEN << "Full name is required" >>
    ELSE IF Len(d.fullName) < MinNameLength
         THEN << "Name must be at least 2 characters long" >>
         ELSE << >>
BloodGroupErrors(d) ==
    IF Len(d.bloodGroup) = 0 THEN << "Blood group is required" >>
    ELSE IF d.bloodGroup \notin validBloodGroups THEN << "Invalid blood group" >>
         ELSE << >>
AgeErrors(d) ==
    IF d.age < MinAge THEN << "Donor must be at least 18 years old" >>
    ELSE IF d.age > MaxAge THEN << "Donor must be 65 years or younger" >>
         ELSE << >>
YearErrors(d) ==
    IF Len(d.year) = 0 THEN << "Year is required" >>
    ELSE IF d.year \notin validYears THEN << "Invalid year selection" >>
         ELSE << >>
ValidationErrors(d) ==
    NameErrors(d) \o BloodGroupErrors(d) \o AgeErrors(d) \o YearErrors(d)

NoStats == [identifier |-> "none", totalBloodUnits |-> 0, lastUpdated |-> 0]
StatsDoc(units, updated) ==
    [identifier |-> "global", totalBloodUnits |-> units, lastUpdated |-> updated]

\* ----------------------------------------------------------- responses
\* a bug: the stats route naming the counter as the donate route does
DonateKey == "totalUnits"
\* the key of the counter in the data of GET /api/stats and of sync-stats
StatsKey == "totalBloodUnits"
SyncKey == "totalBloodUnits"
NoPublic == [fullName |-> <<>>, bloodGroup |-> <<>>]
Response(kind, status, message, key, units, updated, publicDonor, list) ==
    [kind |-> kind, status |-> status, success |-> TRUE,
     message |-> message, key |-> key, units |-> units, updated |-> updated,
     donor |-> publicDonor, list |-> list, limit |-> 0]
NoResponse == Response("none", 0, <<>>, "", -1, -1, NoPublic, <<>>)
\* a bug: an error answer that says success: true
RejectedSaysSuccess(kind, status, messages) ==
    Response(kind, status, messages, "", -1, -1, NoPublic, <<>>)
\* res.status(status).json({success: false, message})
Rejected(kind, status, messages) ==
    [Response(kind, status, messages, "", -1, -1, NoPublic, <<>>)
       EXCEPT !.success = FALSE]
\* a bug: an error answer sent without res.status(...), so with status 200
FailureWithoutStatus(kind, status, message) == Rejected(kind, 200, << message >>)
Failure(kind, status, message) == Rejected(kind, status, << message >>)

\* The synchronous part of POST /api/donate: the route's own checks, then
\* new Donor(...).  fullName.trim() throws a TypeError when fullName is not
\* a string; the catch block answers 500 to anything but a ValidationError.
DonateCheck(body, clock) ==
    IF ~Truthy(body.fullName) \/ ~Truthy(body.bloodGroup)
         \/ ~Truthy(body.age) \/ ~Truthy(body.year)
    THEN [ok |-> FALSE, doc |-> NoDoc,
          resp |-> Failure("donate", 400, "All fields are required")]
    ELSE LET ageNum == ParseInt(body.age) IN
    IF ageNum.nan \/ ageNum.v < MinAge
    THEN [ok |-> FALSE, doc |-> NoDoc,
          resp |-> Failure("donate", 400, "Donor must be at least 18 years old")]
    ELSE IF ~Includes(validBloodGroups, body.bloodGroup)
    THEN [ok |-> FALSE, doc |-> NoDoc,
          resp |-> Failure("donate", 400, "Invalid blood group")]
    ELSE IF ~Includes(validYears, body.year)
    THEN [ok |-> FALSE, doc |-> NoDoc,
          resp |-> Failure("donate", 400, "Invalid year selection")]
    ELSE IF body.fullName.t # "string"
    THEN [ok |-> FALSE, doc |-> NoDoc,
          resp |-> Failure("donate", 500, "Server error. Please try again later.")]
    ELSE [ok |-> TRUE,
          doc |-> NewDonor(Trim(body.fullName.s), body.bloodGroup.s, ageNum.v,
                           body.year.s, clock),
          resp |-> NoResponse]

\* A valid submission in the sense of the data model: a name of at least two
\* characters once trimmed, a blood group and a year of the closed sets, an
\* integer age from 18 to 65.
ValidSubmission(body) ==
    /\ body.fullName.t = "string" /\ Len(Trim(body.fullName.s)) >= 2
    /\ body.bloodGroup.t = "string" /\ body.bloodGroup.s \in validBloodGroups
    /\ body.age.t = "number" /\ body.age.f = 0 /\ body.age.n >= 18 /\ body.age.n <= 65
    /\ body.year.t = "string" /\ body.year.s \in validYears

\* ------------------------------------------------------ storage operations
\* Model.findOne({identifier: 'global'}): the document, or NoStats for null
FindOne(coll) == IF coll = <<>> THEN NoStats ELSE coll[1]

\* a bug: the unique index is missing
NoUniqueIndex(coll, doc) == FALSE

\* the unique index on identifier: an insert of a second 'global' document
\* is refused with a duplicate-key error
DuplicateKey(coll, doc) == \E i \in 1..Len(coll) : coll[i].identifier = doc.identifier
InsertStats(coll, doc) == IF DuplicateKey(coll, doc) THEN coll ELSE Append(coll, doc)

\* a bug: the increment is applied with the wrong sign
IncUpdateDecrements(doc, amount, stamp) ==
    [doc EXCEPT !.totalBloodUnits = @ - amount, !.lastUpdated = stamp]

\* a bug: $set where $inc was meant, the counter is overwritten
IncUpdateOverwrites(doc, amount, stamp) ==
    [doc EXCEPT !.totalBloodUnits = amount, !.lastUpdated = stamp]

\* findOneAndUpdate(..., {$inc: {totalBloodUnits: amount}, $set: {lastUpdated}},
\* {new: true, upsert: true}): one atomic read-modify-write of the document
IncUpdate(doc, amount, stamp) ==
    [doc EXCEPT !.totalBloodUnits = @ + amount, !.lastUpdated = stamp]
\* a bug: without new: true the document before the update is returned
ReturnOriginal(before, after) == before
\* the option new: true: findOneAndUpdate resolves to the updated document
ReturnNew(before, after) == after
FindOneAndInc(coll, amount, stamp) ==
    IF coll = <<>> THEN << StatsDoc(amount, stamp) >>
    ELSE [coll EXCEPT ![1] = IncUpdate(coll[1], amount, stamp)]

\* a bug: the update leaves lastUpdated alone
SetUpdateKeepsStamp(doc, donorCount, stamp) ==
    [doc EXCEPT !.totalBloodUnits = donorCount]

\* findOneAndUpdate(..., {totalBloodUnits: donorCount, lastUpdated}, {upsert: true})
SetUpdate(doc, donorCount, stamp) ==
    [doc EXCEPT !.totalBloodUnits = donorCount, !.lastUpdated = stamp]
FindOneAndSet(coll, donorCount, stamp) ==
    IF coll = <<>> THEN << StatsDoc(donorCount, stamp) >>
    ELSE [coll EXCEPT ![1] = SetUpdate(coll[1], donorCount, stamp)]

\* a bug: a save that restamps the donors already on record
InsertDonorRestamps(coll, doc) ==
    Append([k \in 1..Len(coll) |-> [coll[k] EXCEPT !.donatedAt = doc.donatedAt]],
           [doc EXCEPT !.id = Len(coll) + 1])

\* donor.save(): the insert gives the document its place in the collection
InsertDonor(coll, doc) == Append(coll, [doc EXCEPT !.id = Len(coll) + 1])

\* Donor.countDocuments()
CountDocuments(coll) == Len(coll)

\* a bug: the query without its projection
SelectAll(d) == d

\* .select('fullName bloodGroup donatedAt'): _id comes along by default
Select(d) == [id |-> d.id, fullName |-> d.fullName, bloodGroup |-> d.bloodGroup,
              donatedAt |-> d.donatedAt]

\* parseInt(req.query.limit) || 10
Limit(q) == LET p == ParseInt(q) IN IF p.nan \/ p.v = 0 THEN DefaultLimit ELSE p.v

\* cursor.limit(n): a negative n is taken as -n
Take(seq, n) == LET m == IF n < 0 THEN 0 - n ELSE n IN
                SubSeq(seq, 1, IF m < Len(seq) THEN m ELSE Len(seq))

\* .sort({donatedAt: -1}): every order of the collection in which donatedAt
\* never increases; documents with equal donatedAt come in any order
Orders(coll) ==
    { p \in [1..Len(coll) -> 1..Len(coll)] :
        /\ \A i, j \in 1..Len(coll) : i # j => p[i] # p[j]
        /\ \A i \in 1..Len(coll) - 1 :
             coll[p[i]].donatedAt >= coll[p[i + 1]].donatedAt }
FindSortLimit(coll, n) ==
    { Take([i \in 1..Len(coll) |-> Select(coll[p[i]])], n) : p \in Orders(coll) }

\* ------------------------------------------------------------------ state
VARIABLES
    donors,     \* the donors collection, in insertion order
    stats,      \* the stats collection
    now,        \* the clock that Date.now() and new Date() read
    inst,       \* each server process: where startServer stands
    input,      \* a submission whose body express.json() has parsed
    req,        \* the requests that await a storage operation (a bag)
    last,       \* the response sent last
    failed,     \* history: a storage operation has failed
    batch,      \* history: the requests that ran since the server was last idle
    dash        \* the dashboard page of one browser (initDashboard)

vars == << donors, stats, now, inst, input, req, last, failed, batch, dash >>

Instances == {"a", "b"}
Primary == {"a"}

NoBody == [fullName |-> Undef, bloodGroup |-> Undef, age |-> Undef, year |-> Undef]
\* a request awaiting storage: where its handler stands and the handler's locals
Awaiting(pc, doc, ts, cnt, body) ==
    [pc |-> pc, doc |-> doc, ts |-> ts, cnt |-> cnt, body |-> body]
Pending == BagToSet(req)
At(pc) == { x \in Pending : x.pc = pc }
Enter(x) == req (+) SetToBag({x})
Leave(x) == req (-) SetToBag({x})
Move(x, y) == (req (-) SetToBag({x})) (+) SetToBag({y})

Listening == \E i \in Instances : inst[i].pc = "listening"
Quiescent == req = EmptyBag
HasRoom == BagCardinality(req) < NumReq
Units == FindOne(stats).totalBloodUnits
\* registrations under way: awaiting donor.save() or incrementCount
InFlightDonates == BagCardinality([x \in At("save") \cup At("inc") |-> req[x]])

\* the dashboard page before it is opened
NoDashboard ==
    [previousTotal |-> 0, isFirstLoad |-> TRUE, fetch |-> {}, show |-> FALSE,
     timers |-> {}, t |-> -1, polled |-> FALSE,
     shownAt |-> 0, who |-> 0, done |-> {}, since |-> {}]

\* history: a request starts; it opens a new batch when the server is idle.
\* units, count: the counter and the donor count when the batch opened;
\* n: 1 while the batch has one request, 2 once it has more; valid: the valid
\* submissions started in it (counted while it is clean); dirty: a sync-stats
\* request or a failed storage operation is part of it
Begin ==
    IF Quiescent
    THEN [units |-> Units, count |-> Len(donors), n |-> 1, valid |-> 0,
          dirty |-> FALSE]
    ELSE [batch EXCEPT !.n = 2]

Init ==
    /\ donors = << >>
    /\ stats = << >>
    /\ now = 0
    /\ inst = [i \in Instances |-> [pc |-> "off", ts |-> 0, err |-> "none"]]
    /\ input = << >>
    /\ req = EmptyBag
    /\ last = NoResponse
    /\ failed = FALSE
    /\ batch = [units |-> 0, count |-> 0, n |-> 0, valid |-> 0, dirty |-> FALSE]
    /\ dash = NoDashboard

Tick ==
    /\ now < MaxTime
    /\ now' = now + 1
    /\ UNCHANGED << donors, stats, inst, input, req, last, failed, batch, dash >>

\* ------------------------------------------------- startServer / connectDB
\* startServer() is called; connectDB awaits mongoose.connect
Start(i) ==
    /\ inst[i].pc = "off"
    /\ inst' = [inst EXCEPT ![i].pc = "connect"]
    /\ UNCHANGED << donors, stats, now, req, last, failed, batch, input, dash >>

\* mongoose.connect resolves: Stats.getStats() is called and awaits findOne
Connect(i) ==
    /\ inst[i].pc = "connect"
    /\ inst' = [inst EXCEPT ![i].pc = "find"]
    /\ UNCHANGED << donors, stats, now, req, last, failed, batch, input, dash >>

\* getStats in connectDB: findOne resolves; a null result goes on to create,
\* whose document takes its default lastUpdated = Date.now() here; otherwise
\* connectDB returns and app.listen is called
BootFind(i) ==
    /\ inst[i].pc = "find"
    /\ inst' = [inst EXCEPT ![i] =
           IF FindOne(stats) = NoStats
           THEN [pc |-> "create", ts |-> now, err |-> "none"]
           ELSE [pc |-> "listening", ts |-> 0, err |-> "none"]]
    /\ UNCHANGED << donors, stats, now, req, last, failed, batch, input, dash >>

\* a bug: a catch that logs the error and returns, so that app.listen runs
BootFailsButListens(i) ==
    /\ inst[i].pc \in {"connect", "find", "create"}
    /\ inst' = [inst EXCEPT ![i] = [pc |-> "listening", ts |-> 0, err |-> "storage"]]
    /\ failed' = TRUE
    /\ UNCHANGED << donors, stats, now, req, last, batch, input, dash >>

\* connectDB's catch: mongoose.connect or getStats rejects (store unreachable,
\* timeout) and the process exits
BootFails(i) ==
    /\ inst[i].pc \in {"connect", "find", "create"}
    /\ inst' = [inst EXCEPT ![i] = [pc |-> "exited", ts |-> 0, err |-> "storage"]]
    /\ failed' = TRUE
    /\ UNCHANGED << donors, stats, now, req, last, batch, input, dash >>

\* the callers of Stats.getStats that can await its create: connectDB of a
\* server process, and a GET /api/stats request
Callers(I) == { [k |-> "boot", i |-> i, x |-> Awaiting("create", NoDoc, inst[i].ts, 0, NoBody)] :
                  i \in { j \in I : inst[j].pc = "create" } }
              \cup { [k |-> "route", i |-> "a", x |-> x] : x \in At("create") }

\* getStats: this.create({identifier: 'global', totalBloodUnits: 0}) settles.
\* The duplicate-key error of a lost race is thrown to the caller: connectDB
\* ends the process (else app.listen is called), the route answers 500 (else
\* 200 with the created document).
GetStatsCreate(c) ==
    LET doc == StatsDoc(0, c.x.ts)
        thrown == DuplicateKey(stats, doc)
    IN
    /\ stats' = InsertStats(stats, doc)
    /\ IF c.k = "boot"
       THEN /\ inst' = [inst EXCEPT ![c.i] =
                   IF thrown THEN [pc |-> "exited", ts |-> 0, err |-> "E11000"]
                   ELSE [pc |-> "listening", ts |-> 0, err |-> "none"]]
            /\ UNCHANGED << req, last >>
       ELSE /\ req' = Leave(c.x)
            /\ last' = IF thrown
                       THEN Failure("stats", 500, "Error fetching statistics")
                       ELSE Response("stats", 200, <<>>, StatsKey,
                                     doc.totalBloodUnits, doc.lastUpdated,
                                     NoPublic, <<>>)
            /\ UNCHANGED inst
    /\ UNCHANGED << donors, now, failed, batch, input, dash >>

\* ------------------------------------------------------- POST /api/donate
\* The request arrives: the route's checks, new Donor(...) and the call of
\* donor.save().  A rejected submission is answered at once.
DonateStart(body) ==
    /\ Listening
    /\ LET c == DonateCheck(body, now) IN
       IF c.ok
       THEN /\ HasRoom
            /\ Len(donors) + InFlightDonates < MaxDonors
            /\ req' = Enter(Awaiting("save", c.doc, 0, 0, body))
            /\ UNCHANGED last
       ELSE /\ last' = c.resp
            /\ UNCHANGED req
    /\ batch' = [Begin EXCEPT
                   !.valid = IF ValidSubmission(body) /\ ~Begin.dirty THEN @ + 1 ELSE @]
    /\ UNCHANGED << donors, stats, now, inst, failed, dash >>

\* donor.save() settles: the schema's validators run first and reject with a
\* ValidationError (answered 400 with the messages); otherwise the document
\* is inserted and the handler calls Stats.incrementCount(1), which reads
\* new Date().
DonateSave(x) ==
    /\ x.pc = "save"
    /\ LET errs == ValidationErrors(x.doc) IN
       IF errs # << >>
       THEN /\ last' = Rejected("donate", 400, errs)
            /\ req' = Leave(x)
            /\ UNCHANGED donors
       ELSE /\ donors' = InsertDonor(donors, x.doc)
            /\ req' = Move(x, [x EXCEPT !.pc = "inc", !.ts = now])
            /\ UNCHANGED last
    /\ UNCHANGED << stats, now, inst, failed, batch, input, dash >>

\* Stats.incrementCount(1) resolves: the update is applied and the route
\* answers 201 with the updated document's counter
DonateInc(x) ==
    /\ x.pc = "inc"
    /\ stats' = FindOneAndInc(stats, 1, x.ts)
    /\ last' = Response("donate", 201, << "Donation registered successfully" >>,
                        "totalUnits",
                        ReturnNew(FindOne(stats), FindOne(stats')).totalBloodUnits, -1,
                        [fullName |-> x.doc.fullName, bloodGroup |-> x.doc.bloodGroup],
                        <<>>)
    /\ UNCHANGED batch
    /\ req' = Leave(x)
    /\ UNCHANGED << donors, now, inst, failed, input, dash >>

\* a bug: a catch block that deletes the donor when the increment failed
DonateFailsAndDeletes(x) ==
    /\ x.pc \in {"save", "inc"}
    /\ x.pc = "save" => ValidationErrors(x.doc) = << >>
    /\ last' = Failure("donate", 500, "Server error. Please try again later.")
    /\ req' = Leave(x)
    /\ donors' = IF x.pc = "inc"
                  THEN SelectSeq(donors, LAMBDA d : [d EXCEPT !.id = 0] # x.doc)
                  ELSE donors
    /\ failed' = TRUE
    /\ batch' = [batch EXCEPT !.dirty = TRUE]
    /\ UNCHANGED << stats, now, inst, input, dash >>

\* a bug: a catch block that counts the donation although the write failed
DonateFailsButCounts(x) ==
    /\ x.pc \in {"save", "inc"}
    /\ x.pc = "save" => ValidationErrors(x.doc) = << >>
    /\ last' = Failure("donate", 500, "Server error. Please try again later.")
    /\ req' = Leave(x)
    /\ stats' = FindOneAndInc(stats, 1, now)
    /\ failed' = TRUE
    /\ batch' = [batch EXCEPT !.dirty = TRUE]
    /\ UNCHANGED << donors, now, inst, input, dash >>

\* the catch block of the route: donor.save() (for a document that passed the
\* validators) or incrementCount rejects with a storage error, answered 500
DonateFails(x) ==
    /\ x.pc \in {"save", "inc"}
    /\ x.pc = "save" => ValidationErrors(x.doc) = << >>
    /\ last' = Failure("donate", 500, "Server error. Please try again later.")
    /\ req' = Leave(x)
    /\ failed' = TRUE
    /\ batch' = [batch EXCEPT !.dirty = TRUE]
    /\ UNCHANGED << donors, stats, now, inst, input, dash >>

\* -------------------------------------------------------- GET /api/stats
\* a bug: a read that stamps the document it returns
StatsGetTouches ==
    /\ Listening
    /\ FindOne(stats) # NoStats
    /\ last' = Response("stats", 200, <<>>, StatsKey,
                        FindOne(stats).totalBloodUnits, FindOne(stats).lastUpdated,
                        NoPublic, <<>>)
    /\ stats' = [stats EXCEPT ![1].lastUpdated = now]
    /\ batch' = Begin
    /\ UNCHANGED << donors, now, inst, req, failed, input, dash >>

\* The request arrives and getStats' findOne resolves: the document found is
\* answered; a null result goes on to create (default lastUpdated read here)
StatsGet ==
    /\ Listening
    /\ LET found == FindOne(stats) IN
       IF found = NoStats
       THEN /\ HasRoom
            /\ req' = Enter(Awaiting("create", NoDoc, now, 0, NoBody))
            /\ UNCHANGED last
       ELSE /\ last' = Response("stats", 200, <<>>, StatsKey,
                                found.totalBloodUnits, found.lastUpdated,
                                NoPublic, <<>>)
            /\ UNCHANGED req
    /\ batch' = Begin
    /\ UNCHANGED << donors, stats, now, inst, failed, input, dash >>

\* the catch block of the route: getStats' findOne rejects, answered 500
StatsGetFails ==
    /\ Listening
    /\ last' = Failure("stats", 500, "Error fetching statistics")
    /\ failed' = TRUE
    /\ batch' = [Begin EXCEPT !.dirty = TRUE]
    /\ UNCHANGED << donors, stats, now, inst, req, input, dash >>

\* ---------------------------------------------------- POST /api/sync-stats
\* The request arrives and countDocuments resolves; the handler then reads
\* new Date() and calls findOneAndUpdate
SyncStart ==
    /\ Listening
    /\ HasRoom
    /\ req' = Enter(Awaiting("syncw", NoDoc, now, CountDocuments(donors), NoBody))
    /\ batch' = [Begin EXCEPT !.dirty = TRUE]
    /\ UNCHANGED << donors, stats, now, inst, last, failed, input, dash >>

\* findOneAndUpdate resolves: the counter is overwritten with the count read
\* before, and that count is answered
SyncWrite(x) ==
    /\ x.pc = "syncw"
    /\ stats' = FindOneAndSet(stats, x.cnt, x.ts)
    /\ last' = Response("sync", 200, << "Stats synced. Total donors" >>,
                        SyncKey, x.cnt, -1, NoPublic, <<>>)
    /\ req' = Leave(x)
    /\ UNCHANGED << donors, now, inst, failed, batch, input, dash >>

\* the catch block of the route: countDocuments rejects, answered 500
SyncStartFails ==
    /\ Listening
    /\ last' = Failure("sync", 500, "Error syncing statistics")
    /\ failed' = TRUE
    /\ batch' = [Begin EXCEPT !.dirty = TRUE]
    /\ UNCHANGED << donors, stats, now, inst, req, input, dash >>

\* the catch block of the route: findOneAndUpdate rejects, answered 500
SyncWriteFails(x) ==
    /\ x.pc = "syncw"
    /\ last' = Failure("sync", 500, "Error syncing statistics")
    /\ req' = Leave(x)
    /\ failed' = TRUE
    /\ UNCHANGED << donors, stats, now, inst, batch, input, dash >>

\* ------------------------------------------------------- GET /api/donors
\* a bug: a listing that reconciles the counter on its way
DonorsGetReconciles(q) ==
    /\ Listening
    /\ \E list \in FindSortLimit(donors, Limit(q)) :
         last' = [Response("donors", 200, <<>>, "", -1, -1, NoPublic, list)
                    EXCEPT !.limit = Limit(q)]
    /\ stats' = FindOneAndSet(stats, CountDocuments(donors), now)
    /\ batch' = Begin
    /\ UNCHANGED << donors, now, inst, req, failed, input, dash >>

\* The request arrives and the query resolves
DonorsGet(q) ==
    /\ Listening
    /\ \E list \in FindSortLimit(donors, Limit(q)) :
         last' = [Response("donors", 200, <<>>, "", -1, -1, NoPublic, list)
                    EXCEPT !.limit = Limit(q)]
    /\ batch' = Begin
    /\ UNCHANGED << donors, stats, now, inst, req, failed, input, dash >>

\* the catch block of the route: the query rejects, answered 500
DonorsGetFails ==
    /\ Listening
    /\ last' = Failure("donors", 500, "Error fetching donors")
    /\ failed' = TRUE
    /\ batch' = [Begin EXCEPT !.dirty = TRUE]
    /\ UNCHANGED << donors, stats, now, inst, req, input, dash >>

\* ------------------------------------------- the dashboard (initDashboard)
\* The page polls GET /api/stats every STATS_REFRESH_INTERVAL and, when the
\* counter has risen, fetches GET /api/donors?limit=1 and shows the popup,
\* which a timer hides THANK_YOU after it was set.  The page's time is
\* counted in refresh intervals (5 s).
\* Each request of the page is taken with the server's answer to it: the
\* continuation after the await runs on that answer.  A poll that fails
\* changes nothing on the page (the catch only logs).
\* previousTotal, isFirstLoad: the locals of initDashboard; fetch: the calls
\* of fetchLatestDonorAndShowPopup that await their answer; show: the
\* overlay has the class 'show'; timers: the times at which the pending
\* setTimeout callbacks are due; t: the page's time; polled: fetchStats has
\* run in this interval.
\* History: shownAt: when the overlay was shown last; who: the id of the
\* donor it names; done: the donors whose registration had completed at the
\* last answered poll, that is, who were on record with no increment pending
\* for a document like theirs (a fetch keeps the value of the poll before
\* its own).
Opened(d) == d.t >= 0
Completed ==
    { k \in 1..Len(donors) :
        \A x \in At("inc") : [x.doc EXCEPT !.id = k] # donors[k] }

\* the page opens: the locals are initialised and fetchStats runs at once
Open ==
    /\ ~Opened(dash)
    /\ dash' = [dash EXCEPT !.t = 0]
    /\ UNCHANGED << donors, stats, now, inst, input, req, last, failed, batch >>

\* the continuation of fetchStats on the answer data
FetchStatsThen(d, data, completed) ==
    [d EXCEPT
       !.fetch = IF ~d.isFirstLoad /\ data.totalBloodUnits > d.previousTotal
                 THEN @ \cup { d.done } ELSE @,
       !.previousTotal = IF data.totalBloodUnits # d.previousTotal
                         THEN data.totalBloodUnits ELSE @,
       !.isFirstLoad = FALSE,
       !.polled = TRUE,
       !.done = completed]

\* fetchStats: GET /api/stats is answered and the continuation runs
Poll ==
    /\ Opened(dash) /\ ~dash.polled
    /\ Listening
    /\ FindOne(stats) # NoStats
    /\ last' = Response("stats", 200, <<>>, StatsKey,
                        FindOne(stats).totalBloodUnits, FindOne(stats).lastUpdated,
                        NoPublic, <<>>)
    /\ dash' = FetchStatsThen(dash, FindOne(stats), Completed)
    /\ batch' = Begin
    /\ UNCHANGED << donors, stats, now, inst, input, req, failed >>

\* showThankYouPopup: the overlay gets the class 'show' and a timer is set
ShowThankYouPopup(d, donor) ==
    [d EXCEPT !.show = TRUE, !.shownAt = d.t, !.who = donor.id,
              !.timers = @ \cup { d.t + ThankYouTicks }]

\* fetchLatestDonorAndShowPopup: GET /api/donors?limit=1 is answered; with a
\* donor in the answer the popup is shown
FetchLatest(since) ==
    /\ since \in dash.fetch
    /\ Listening
    /\ \E list \in FindSortLimit(donors, 1) :
         /\ last' = [Response("donors", 200, <<>>, "", -1, -1, NoPublic, list)
                        EXCEPT !.limit = 1]
         /\ dash' = LET d == [dash EXCEPT !.fetch = @ \ { since }, !.since = since]
                    IN IF Len(list) > 0 THEN ShowThankYouPopup(d, list[1]) ELSE d
    /\ batch' = Begin
    /\ UNCHANGED << donors, stats, now, inst, input, req, failed >>

\* a setTimeout callback runs when it is due: the class 'show' is removed
TimerFires(due) ==
    /\ due \in dash.timers /\ due <= dash.t
    /\ dash' = [dash EXCEPT !.show = FALSE, !.timers = @ \ { due }]
    /\ UNCHANGED << donors, stats, now, inst, input, req, last, failed, batch >>

\* a refresh interval passes, once the timers that were due have run
Interval ==
    /\ Opened(dash) /\ dash.t < MaxIntervals
    /\ \A due \in dash.timers : due > dash.t
    /\ dash' = [dash EXCEPT !.t = @ + 1, !.polled = FALSE]
    /\ UNCHANGED << donors, stats, now, inst, input, req, last, failed, batch >>

\* ------------------------------------------------------------- the inputs
Chars(name) ==
    CASE name = "Al" -> << "A", "l" >>
      [] name = " Al " -> << " ", "A", "l", " " >>
      [] name = "A" -> << "A" >>
      [] name = "  " -> << " ", " " >>
      [] name = "" -> << >>
      [] name = "O-" -> << "O", "-" >>
      [] name = "AB+" -> << "A", "B", "+" >>
      [] name = "X" -> << "X" >>
      [] name = "FY" -> << "F", "Y" >>
      [] name = "PhD" -> << "P", "h", "D" >>
      [] name = "17" -> << "1", "7" >>
      [] name = "30abc" -> << "3", "0", "a", "b", "c" >>
      [] name = "abc" -> << "a", "b", "c" >>
      [] name = "1" -> << "1" >>
      [] name = "0" -> << "0" >>
      [] name = "2" -> << "2" >>
      [] OTHER -> << >>

Body(fullName, bloodGroup, age, year) ==
    [fullName |-> fullName, bloodGroup |-> bloodGroup, age |-> age, year |-> year]

\* submissions of the concurrent specification: a valid one, one the route
\* rejects and one only the schema rejects
JaneDoe == Body(Str(Chars("Al")), Str(Chars("O-")), Num(30, 0), Str(Chars("FY")))
CoreBodies ==
    { JaneDoe,
      [JaneDoe EXCEPT !.age = Num(17, 0)],
      [JaneDoe EXCEPT !.age = Num(66, 0)] }

\* submissions of the sequential specification: every combination
NameInputs ==
    { Undef, Num(7, 0), Str(Chars("")), Str(Chars("  ")), Str(Chars("A")),
      Str(Chars("Al")), Str(Chars(" Al ")) }
BloodGroupInputs == { Undef, Num(5, 0), Str(Chars("X")), Str(Chars("O-")) }
AgeInputs ==
    { Undef, Num(0, 0), Num(17, 0), Num(18, 0), Num(18, 5), Num(65, 0), Num(65, 5),
      Num(66, 0), Str(Chars("30abc")), Str(Chars("abc")) }
YearInputs == { Undef, Str(Chars("PhD")), Str(Chars("FY")) }
AllBodies ==
    { Body(n, b, a, y) : n \in NameInputs, b \in BloodGroupInputs,
                         a \in AgeInputs, y \in YearInputs }

LimitInputs == { Undef, Str(Chars("0")), Str(Chars("1")) }

\* ------------------------------------------------------- specifications
Boot(I) ==
    \/ \E i \in I : Start(i) \/ Connect(i) \/ BootFind(i)
    \/ \E c \in Callers(I) : GetStatsCreate(c)

\* a POST /api/donate request whose body is b
Donate(b) == DonateStart(b) /\ UNCHANGED input

Routes(bodies) ==
    \/ \E b \in bodies : Donate(b)
    \/ \E x \in Pending : DonateSave(x) \/ DonateInc(x) \/ SyncWrite(x)
    \/ StatsGet
    \/ SyncStart

\* one server process under concurrent requests, the store answering
Next ==
    \/ Tick
    \/ Boot(Primary)
    \/ Routes(CoreBodies)
    \/ \E q \in LimitInputs : DonorsGet(q)

Spec == Init /\ [][Next]_vars

\* the same, with storage operations that can fail
NextFail ==
    \/ Tick
    \/ Boot(Primary)
    \/ Routes(CoreBodies)
    \/ \E q \in LimitInputs : DonorsGet(q)
    \/ \E i \in Primary : BootFails(i)
    \/ \E x \in Pending : DonateFails(x) \/ SyncWriteFails(x)
    \/ StatsGetFails
    \/ SyncStartFails
    \/ DonorsGetFails

SpecFail == Init /\ [][NextFail]_vars

\* two server processes started on one database
NextBoot ==
    \/ Tick
    \/ Boot(Instances)
    \/ Routes({JaneDoe})
    \/ \E i \in Instances : BootFails(i)

SpecBoot == Init /\ [][NextBoot]_vars

\* One server process, one registration at a time, every submission: the
\* body parser (express.json()) hands the submission to the route.
Arrive ==
    /\ Listening /\ Quiescent /\ input = << >>
    /\ \E b \in AllBodies :
         /\ DonateCheck(b, now).ok => Len(donors) < MaxDonors
         /\ input' = << b >>
    /\ UNCHANGED << donors, stats, now, inst, req, last, failed, batch, dash >>

Handle ==
    /\ input # << >>
    /\ DonateStart(input[1])
    /\ input' = << >>

NextV ==
    \/ Tick
    \/ Boot(Primary)
    \/ Arrive
    \/ Handle
    \/ \E x \in Pending : DonateSave(x) \/ DonateInc(x)

SpecV == Init /\ [][NextV]_vars

\* One server process and one dashboard page, with registrations and
\* sync-stats calls going on.
NextDash ==
    \/ Tick
    \/ Boot(Primary)
    \/ Donate(JaneDoe)
    \/ \E x \in Pending : DonateSave(x) \/ DonateInc(x) \/ SyncWrite(x)
    \/ SyncStart
    \/ Open
    \/ Poll
    \/ \E since \in dash.fetch : FetchLatest(since)
    \/ \E due \in dash.timers : TimerFires(due)
    \/ Interval

SpecDash == Init /\ [][NextDash]_vars

\* ===================================================================
\* Properties
\* ===================================================================

\* the request that was answered last ran with no other request beside it
Lone == Quiescent /\ batch.n = 1

\* ------------------------------------------------------------------ C1
\* C1: when the K valid registrations of a batch (any interleaving of their
\* save and increment steps, no sync-stats call among them) have all
\* completed, the counter and the donor count are both exactly K greater
\* than they were when the batch began.
C1_NoLostIncrements ==
    (Quiescent /\ ~batch.dirty) =>
        /\ Units = batch.units + batch.valid
        /\ Len(donors) = batch.count + batch.valid

\* two valid registrations that overlapped have both completed
C1_Witness ==
    /\ Quiescent /\ ~batch.dirty /\ batch.n = 2 /\ batch.valid = 2
    /\ Len(donors) = 2 /\ last.status = 201

\* ------------------------------------------------------------------ C2
\* C2: a successful POST /api/donate that ran alone, followed at once by
\* GET /api/stats, shows the counter exactly 1 above its value before the
\* registration, and followed by GET /api/donors?limit=1 returns the donor
\* just created, alone, as the list.
AfterLoneRegistration == Lone /\ last.kind = "donate" /\ last.status = 201
C2_ReadYourRegistration ==
    [][ AfterLoneRegistration =>
          /\ (last'.kind = "stats") =>
                 last'.status = 200 /\ last'.units = batch.units + 1
          /\ (last'.kind = "donors" /\ last'.limit = 1) =>
                 /\ last'.status = 200
                 /\ last'.list = << Select(donors[Len(donors)]) >>
                 /\ last'.list[1].fullName = last.donor.fullName ]_vars

\* ------------------------------------------------------------------ C3
\* C3: whenever no request is in flight and no storage operation has failed,
\* the counter of the Stats document equals the number of donor documents.
C3_CounterEqualsCount ==
    (Quiescent /\ ~failed) => Units = Len(donors)

\* ------------------------------------------------------------------ C4
\* C4: a sync-stats request that runs alone from a state in which the counter
\* undercounts leaves the Stats document with the exact donor count and the
\* time the handler read, and answers that count.
C4_SyncRepairsUndercount ==
    [][ \A x \in At("syncw") :
          (batch.n = 1 /\ Units < Len(donors) /\ SyncWrite(x)) =>
              /\ stats' = << StatsDoc(Len(donors), x.ts) >>
              /\ last'.status = 200
              /\ last'.units = Len(donors') ]_vars

\* a lone sync-stats has answered after an increment was dropped
C4_Witness ==
    /\ Lone /\ failed /\ last.kind = "sync" /\ last.status = 200
    /\ batch.units < batch.count
    /\ Units = Len(donors) /\ last.units = Len(donors)

C6_GetStatsNeverThrows ==
    /\ \A i \in Instances : inst[i].err # "E11000"
    /\ (last.kind = "stats" /\ ~failed) => last.status = 200

\* ------------------------------------------------------------------ C7
\* C7: a submission whose age is below 18 or above 65, its other fields
\* valid, is answered 400, creates no donor and leaves the Stats document
\* alone; below 18 the message names the minimum age.
AgeValue(a) == IF a.t = "number" THEN 10 * a.n + a.f ELSE 10 * ParseInt(a).v
AgeOutOfRange(b) ==
    /\ b.age.t = "number"
    /\ AgeValue(b.age) < 10 * MinAge \/ AgeValue(b.age) > 10 * MaxAge
OthersValid(b) == ValidSubmission([b EXCEPT !.age = Num(30, 0)])
MinimumAgeMessage == << "Donor must be at least 18 years old" >>
C7_AgeRejected ==
    [][ /\ (Handle /\ AgeOutOfRange(input[1]) /\ OthersValid(input[1]) /\ req' = req) =>
               /\ last'.status = 400
               /\ AgeValue(input[1].age) < 10 * MinAge => last'.message = MinimumAgeMessage
        /\ \A x \in At("save") :
              (AgeOutOfRange(x.body) /\ OthersValid(x.body) /\ DonateSave(x)) =>
                  /\ last'.status = 400
                  /\ donors' = donors /\ stats' = stats ]_vars

\* ------------------------------------------------------------------ C8
\* C8: a submission whose bloodGroup or year is outside its closed set is
\* answered 400 by the route at once: no storage operation is started, no
\* donor is created and the Stats document is unchanged.
BadBloodGroupOrYear(b) ==
    \/ ~(b.bloodGroup.t = "string" /\ b.bloodGroup.s \in validBloodGroups)
    \/ ~(b.year.t = "string" /\ b.year.s \in validYears)
C8_BadEnumRejected ==
    [][ (Handle /\ BadBloodGroupOrYear(input[1])) =>
          /\ last'.kind = "donate" /\ last'.status = 400 /\ ~last'.success
          /\ req' = req /\ donors' = donors /\ stats' = stats ]_vars

\* an unknown blood group was refused while a donor was on record
C8_Witness ==
    /\ last.kind = "donate" /\ last.status = 400
    /\ last.message = << "Invalid blood group" >>
    /\ Len(donors) = 1 /\ Units = 1

\* ------------------------------------------------------------------ C9
\* C9: a submission in which a field is missing, or in which fullName,
\* bloodGroup or year is not a string, is answered 400 with a message before
\* anything is written.
MissingOrMalformed(b) ==
    \/ b.fullName.t # "string"
    \/ b.bloodGroup.t # "string"
    \/ b.age.t = "undefined"
    \/ b.year.t # "string"
C9_MalformedRejected ==
    [][ (Handle /\ MissingOrMalformed(input[1])) =>
          /\ last'.status = 400 /\ Len(last'.message) > 0
          /\ req' = req /\ donors' = donors /\ stats' = stats ]_vars

\* ----------------------------------------------------------------- C10
\* C10: a submission whose age is not an integer is never persisted: its
\* request never gets past donor.save().
NotAnInteger(a) ==
    \/ a.t = "number" /\ a.f # 0
    \/ a.t = "string" /\ \E k \in 1..Len(a.s) : a.s[k] \notin Digits
C10_NonIntegerAgeRejected ==
    \A x \in At("inc") : ~NotAnInteger(x.body.age)

\* ----------------------------------------------------------------- C11
\* C11: a submission whose fullName is a string of fewer than 2 characters
\* once trimmed (the empty and the whitespace-only name included) is
\* answered 400, by the route or when donor.save() settles, creates no donor
\* and never reaches the increment; every donor on record has a trimmed
\* fullName of at least 2 characters.
ShortName(b) == b.fullName.t = "string" /\ Len(Trim(b.fullName.s)) < MinNameLength
C11_ShortNameRejected ==
    /\ [](/\ \A k \in 1..Len(donors) :
               /\ donors[k].fullName = Trim(donors[k].fullName)
               /\ Len(donors[k].fullName) >= MinNameLength
          /\ \A x \in At("inc") : ~ShortName(x.body))
    /\ [][ /\ (Handle /\ ShortName(input[1])) =>
                /\ donors' = donors /\ stats' = stats
                /\ req' = req => last'.status = 400
           /\ \A x \in At("save") :
                 (ShortName(x.body) /\ DonateSave(x)) =>
                     /\ last'.status = 400 /\ ~last'.success
                     /\ req' = Leave(x)
                     /\ donors' = donors /\ stats' = stats ]_vars

\* a one-character name was refused by the schema while a donor is on record
C11_Witness ==
    /\ last.status = 400
    /\ last.message = << "Name must be at least 2 characters long" >>
    /\ Len(donors) = 1 /\ donors[1].fullName = << "A", "l" >> /\ Units = 1

\* ----------------------------------------------------------------- C12
\* C12: when donor.save() of a registration rejects, with a ValidationError
\* or with a storage error, the request is answered (400 or 500) and is
\* over: no donor is created, the Stats document is as it was and the
\* request does not go on to the increment.
C12_FailedWriteSkipsIncrement ==
    [][ \A x \in At("save") :
          ((DonateSave(x) \/ DonateFails(x)) /\ donors' = donors) =>
              /\ stats' = stats
              /\ last'.kind = "donate" /\ last'.status \in {400, 500}
              /\ req' = req (-) SetToBag({x})
              /\ BagCardinality(req') = BagCardinality(req) - 1 ]_vars

\* a registration that ran alone was answered 500 with no donor written and
\* the counter where it was, a donor being on record from before
C12_Witness ==
    /\ Lone /\ last.kind = "donate" /\ last.status = 500
    /\ Len(donors) = 1 /\ batch.count = 1
    /\ Units = 1 /\ batch.units = 1

\* ----------------------------------------------------------------- C13
\* C13: when donor.save() has succeeded and incrementCount rejects, the
\* request is answered 500 and is over (no retry); its donor stays on record
\* (no compensating delete) and the Stats document is as it was, so that a
\* registration that ran alone leaves the counter one further below the
\* donor count than it was before.
Saved(x) == \E k \in 1..Len(donors) : donors[k] = [x.doc EXCEPT !.id = k]
C13_FailedIncrementKeepsDonor ==
    /\ [](/\ \A x \in At("inc") : Saved(x)
          /\ (/\ Lone /\ last.kind = "donate" /\ last.status = 500
              /\ Len(donors) = batch.count + 1) => Units = batch.units)
    /\ [][ \A x \in At("inc") :
              DonateFails(x) =>
                  /\ donors' = donors /\ stats' = stats
                  /\ last'.kind = "donate" /\ last'.status = 500 /\ ~last'.success
                  /\ req' = req (-) SetToBag({x})
                  /\ BagCardinality(req') = BagCardinality(req) - 1 ]_vars

\* a registration that ran alone wrote the second donor and was answered 500:
\* the counter stayed at 1
C13_Witness ==
    /\ Lone /\ last.kind = "donate" /\ last.status = 500
    /\ batch.count = 1 /\ batch.units = 1
    /\ Len(donors) = 2 /\ Units = 1

\* ----------------------------------------------------------------- C14
\* C14: the registration whose increment is applied is answered 201 with the
\* fullName and bloodGroup of the donor it created and, under the key
\* totalUnits, with the value the counter has right after this increment,
\* which is one more than right before it, whatever other requests run.
C14_CreatedResponse ==
    [][ \A x \in At("inc") :
          DonateInc(x) =>
              /\ last'.kind = "donate" /\ last'.status = 201 /\ last'.success
              /\ last'.donor = [fullName |-> x.doc.fullName,
                                bloodGroup |-> x.doc.bloodGroup]
              /\ Saved(x)
              /\ last'.key = "totalUnits"
              /\ last'.units = FindOne(stats').totalBloodUnits
              /\ last'.units = Units + 1 ]_vars

\* the second of two overlapping registrations was answered 201 with 2
C14_Witness ==
    /\ last.kind = "donate" /\ last.status = 201
    /\ batch.n = 2 /\ last.units = 2 /\ Units = 2
    /\ last.donor = [fullName |-> << "A", "l" >>, bloodGroup |-> << "O", "-" >>]

\* ----------------------------------------------------------------- C15
\* C15: the counter of the Stats document is never negative, in any
\* interleaving of registrations, reads and sync-stats calls.
C15_CounterNeverNegative ==
    \A k \in 1..Len(stats) : stats[k].totalBloodUnits >= 0

\* the lowest the counter gets: a sync-stats call wrote the count 0 it had
\* read before two registrations completed
C15_Witness ==
    /\ Quiescent /\ last.kind = "sync" /\ last.units = 0
    /\ Len(donors) = 2 /\ Len(stats) = 1 /\ Units = 0

\* ----------------------------------------------------------------- C16
\* C16: no step of any route changes or removes a donor document that is on
\* record: the collection only grows, at its end, and every field of a
\* document on record, donatedAt included, stays as it was written.
C16_DonorsAppendOnly ==
    [][ /\ Len(donors') >= Len(donors)
        /\ \A k \in 1..Len(donors) : donors'[k] = donors[k] ]_vars

\* two donors registered at different times are on record as they were
\* written, the counter is 2 and a listing has just been answered
C16_Witness ==
    /\ Len(donors) = 2
    /\ donors[1].donatedAt = 0 /\ donors[2].donatedAt = 1
    /\ Units = 2 /\ last.kind = "donors" /\ Len(last.list) = 2

\* ----------------------------------------------------------------- C17
\* C17: a GET /api/stats answered right after another, nothing having
\* written the Stats document in between, returns the same counter and the
\* same lastUpdated.  The getStats call that creates the absent document
\* (the one connectDB makes) leaves in the store exactly the document it
\* returns, and the first read after it returns that document: counter 0.
C17_StatsReadIdempotent ==
    [][ /\ (last.kind = "stats" /\ last.status = 200 /\ StatsGet) =>
              /\ last'.status = 200
              /\ last'.units = last.units /\ last'.updated = last.updated
        /\ \A c \in Callers(Primary) :
              (GetStatsCreate(c) /\ stats = << >>) =>
                  stats' = << StatsDoc(0, c.x.ts) >>
        /\ (batch.n = 0 /\ StatsGet) =>
              /\ last'.status = 200 /\ last'.units = 0
              /\ last'.updated = FindOne(stats).lastUpdated
              /\ stats' = stats ]_vars

\* a read answered after the clock has moved on still returns the counter
\* and the lastUpdated of the last write
C17_Witness ==
    /\ Quiescent /\ last.kind = "stats" /\ last.status = 200
    /\ now = 1 /\ last.units = 1 /\ last.updated = 0
    /\ stats = << StatsDoc(1, 0) >>

\* ----------------------------------------------------------------- C18
\* C18: the list GET /api/donors answers is in descending order of
\* donatedAt, and entries with equal donatedAt come in insertion order (the
\* record inserted first comes first).
Listed == last.kind = "donors" /\ last.status = 200
ByDonatedAtDescending ==
    Listed => \A i, j \in 1..Len(last.list) :
                 i < j => last.list[i].donatedAt >= last.list[j].donatedAt
C18_OrderedWithTies ==
    /\ ByDonatedAtDescending
    /\ Listed => \A i, j \in 1..Len(last.list) :
                    (i < j /\ last.list[i].donatedAt = last.list[j].donatedAt)
                        => last.list[i].id < last.list[j].id

\* ----------------------------------------------------------------- C19
\* C19: GET /api/donors?limit=N answers exactly min(N, number of donors)
\* entries, for every N supplied; without a limit it answers at most 10
\* (min(10, number of donors)).
Min(a, b) == IF a < b THEN a ELSE b
Supplied(q) == IF q.t = "undefined" THEN DefaultLimit ELSE ParseInt(q).v
C19_LimitRespected ==
    [][ \A q \in LimitInputs :
          DonorsGet(q) =>
              /\ last'.status = 200
              /\ Len(last'.list) = Min(Supplied(q), Len(donors)) ]_vars

\* ----------------------------------------------------------------- C20
\* C20: every entry of a list answered by GET /api/donors has the fields id,
\* fullName, bloodGroup and donatedAt and no other: neither age nor year.
PublicFields == { "id", "fullName", "bloodGroup", "donatedAt" }
C20_ListingHidesAgeAndYear ==
    Listed => \A k \in 1..Len(last.list) :
                 /\ DOMAIN last.list[k] = PublicFields
                 /\ \E d \in 1..Len(donors) : last.list[k] = Select(donors[d])

\* both donors on record, each with an age and a year, have been listed
C20_Witness ==
    /\ Listed /\ Len(last.list) = 2 /\ Len(donors) = 2
    /\ \A d \in 1..2 : donors[d].age = 30 /\ donors[d].year = << "F", "Y" >>

\* ----------------------------------------------------------------- C21
\* C21 (as the code has it): GET /api/stats answers 200 with the counter
\* under the key totalBloodUnits, together with lastUpdated, and POST
\* /api/sync-stats answers 200 with the count it wrote under the key
\* totalBloodUnits; only POST /api/donate names the counter totalUnits.
StatsAnswer(key) ==
    /\ StatsGet => /\ last'.kind = "stats" /\ last'.status = 200 /\ last'.success
                   /\ last'.key = key
                   /\ last'.units = Units
                   /\ last'.updated = FindOne(stats).lastUpdated
    /\ \A x \in At("syncw") :
          SyncWrite(x) => /\ last'.kind = "sync" /\ last'.status = 200 /\ last'.success
                          /\ last'.key = key
                          /\ last'.units = x.cnt
                          /\ last'.units = FindOne(stats').totalBloodUnits
C21_StatsKeyIsTotalBloodUnits == [][StatsAnswer("totalBloodUnits")]_vars

\* C21 (as stated): both answers carry the counter under the key totalUnits.
C21_StatsKeyIsTotalUnits == [][StatsAnswer("totalUnits")]_vars

\* a sync-stats call has answered the count 1 under totalBloodUnits
C21_Witness ==
    /\ last.kind = "sync" /\ last.status = 200
    /\ last.key = "totalBloodUnits" /\ last.units = 1 /\ Units = 1

\* ----------------------------------------------------------------- C22
\* C22: a storage operation that rejects ends its request with one answer
\* of status 500, at each of the four routes: the handler's catch block
\* answers and the request awaits nothing further.
Answered500(kind) ==
    last'.kind = kind /\ last'.status = 500 /\ ~last'.success
Over(x) ==
    /\ req' = req (-) SetToBag({x})
    /\ BagCardinality(req') = BagCardinality(req) - 1
C22_StorageFailureAnswered500 ==
    [][ /\ \A x \in At("save") \cup At("inc") :
              DonateFails(x) => Answered500("donate") /\ Over(x)
        /\ \A x \in At("syncw") :
              SyncWriteFails(x) => Answered500("sync") /\ Over(x)
        /\ StatsGetFails => Answered500("stats") /\ req' = req
        /\ SyncStartFails => Answered500("sync") /\ req' = req
        /\ DonorsGetFails => Answered500("donors") /\ req' = req ]_vars

\* the update of a sync-stats call was rejected and answered 500; nothing
\* is pending
C22_Witness ==
    /\ Quiescent /\ failed /\ last.kind = "sync" /\ last.status = 500
    /\ last.message = << "Error syncing statistics" >>

\* ----------------------------------------------------------------- C23
\* C23: every answer of the four routes carries success as a boolean; an
\* answer with success false carries a message, and an answer with success
\* true has a status from 200 to 299.
C23_SuccessField ==
    last.kind # "none" =>
        /\ last.success \in BOOLEAN
        /\ ~last.success => last.message # << >> /\ last.status >= 400
        /\ last.success => last.status >= 200 /\ last.status <= 299

\* a submission that passed the route was refused by the schema: success
\* false, status 400 and the validator's message
C23_Witness ==
    /\ last.kind = "donate" /\ last.status = 400 /\ ~last.success
    /\ last.message = << "Donor must be 65 years or younger" >>

\* ----------------------------------------------------------------- C25
\* C25: the counter never exceeds the number of donor documents, in any
\* interleaving of registrations with sync-stats calls.
C25_CounterAtMostCount ==
    Units <= Len(donors)

\* ----------------------------------------------------------------- C26
\* C26: no step lowers the lastUpdated of the Stats document, in any
\* interleaving of increments and sync-stats calls.
C26_LastUpdatedMonotone ==
    [][ (Len(stats) = 1 /\ Len(stats') = 1) =>
            stats'[1].lastUpdated >= stats[1].lastUpdated ]_vars

\* ----------------------------------------------------------------- C27
\* C27: GET /api/donors changes neither collection; GET /api/stats changes
\* no donor and no field of a Stats document that exists; getStats writes
\* only when the document is absent, and then a document with counter 0;
\* a Stats document that exists is changed only by the increment of a
\* registration and by sync-stats.
C27_ReadsDoNotMutate ==
    [][ /\ \A q \in LimitInputs :
              DonorsGet(q) => donors' = donors /\ stats' = stats
        /\ StatsGet => donors' = donors /\ stats' = stats
        /\ \A c \in Callers(Primary) :
              GetStatsCreate(c) =>
                  /\ donors' = donors
                  /\ stats # << >> => stats' = stats
                  /\ stats = << >> =>
                        Len(stats') = 1 /\ stats'[1].totalBloodUnits = 0
        /\ (stats # << >> /\ stats' # stats) =>
              \E x \in At("inc") \cup At("syncw") : DonateInc(x) \/ SyncWrite(x)
      ]_vars

\* a read of the statistics was answered with both donors counted and the
\* Stats document is as the last increment left it
C27_Witness ==
    /\ last.kind = "stats" /\ last.status = 200 /\ last.units = 2
    /\ Len(donors) = 2 /\ now = 1 /\ stats = << StatsDoc(2, 0) >>

\* ----------------------------------------------------------------- C28
\* C28: a server process starts to listen only from connectDB's getStats
\* (so after mongoose.connect resolved) and with the Stats document in the
\* store; a process whose connect or getStats failed has exited and never
\* listens; no request is handled unless a process listens, so none is
\* handled while the Stats document is absent.
C28_ListenAfterInit ==
    /\ [](/\ \A i \in Instances :
               /\ inst[i].pc = "listening" => Len(stats) = 1 /\ inst[i].err = "none"
               /\ inst[i].err # "none" => inst[i].pc = "exited"
          /\ (req # EmptyBag \/ last.kind # "none") => Listening /\ Len(stats) = 1)
    /\ [][ /\ \A i \in Instances :
               /\ (inst'[i].pc = "listening" /\ inst[i].pc # "listening") =>
                      /\ inst[i].pc \in {"find", "create"}
                      /\ Len(stats') = 1
               /\ inst[i].pc = "exited" => inst'[i].pc = "exited"
               /\ inst[i].pc = "off" => inst'[i].pc \in {"off", "connect"}
               /\ inst[i].pc = "connect" => inst'[i].pc \in {"connect", "find", "exited"}
           /\ (req' # req \/ last' # last) => Listening ]_vars

\* one process failed to start and has exited, the other listens and has
\* answered a registration
C28_Witness ==
    /\ \E i, j \in Instances :
          /\ inst[i].pc = "exited" /\ inst[i].err = "storage"
          /\ inst[j].pc = "listening"
    /\ last.kind = "donate" /\ last.status = 201 /\ Len(stats) = 1

\* ----------------------------------------------------------------- C29
\* C29: in a batch of registrations with no sync-stats call (and no storage
\* failure), starting from counter c, the counter changes only by the
\* increments of the registrations, each of which raises it by one and is
\* answered the value it raised it to: the values answered are c+1, c+2,
\* ... in turn, each at least 1, no two alike, and none above c + K for the
\* K registrations of the batch.
C29_DistinctTotals ==
    /\ []((~batch.dirty /\ batch.n > 0) =>
              /\ Units >= batch.units
              /\ Units <= batch.units + batch.valid)
    /\ [][ (~batch.dirty /\ ~batch'.dirty /\ batch.n > 0 /\ stats' # stats) =>
              /\ \E x \in At("inc") : DonateInc(x)
              /\ FindOne(stats').totalBloodUnits = Units + 1
              /\ last'.status = 201
              /\ last'.units = Units + 1
              /\ last'.units >= 1 ]_vars

\* of two overlapping registrations one has been answered 1 and the other
\* still awaits its increment
C29_Witness ==
    /\ ~batch.dirty /\ batch.n = 2 /\ batch.units = 0
    /\ last.kind = "donate" /\ last.status = 201 /\ last.units = 1
    /\ At("inc") # {}

\* ----------------------------------------------------------------- C24
\* C24: the overlay of the dashboard loses the class 'show' no sooner than
\* 10 seconds (two refresh intervals) after the popup was shown last.
C24_PopupStaysTenSeconds ==
    [][ (dash.show /\ ~dash'.show) =>
            dash.t >= dash.shownAt + ThankYouTicks ]_vars

\* ----------------------------------------------------------------- C30
\* C30: the dashboard never shows the popup on its first load; a poll calls
\* for the popup only when some donor is on record whose registration had
\* not completed at the poll answered before; and the donor the popup names
\* is such a donor.
C30_PopupOnlyForNewDonor ==
    /\ [](dash.isFirstLoad => dash.fetch = {} /\ ~dash.show)
    /\ [][ /\ (Poll /\ ~dash.isFirstLoad /\ Units > dash.previousTotal) =>
                \E k \in 1..Len(donors) : k \notin dash.done
           /\ \A since \in dash.fetch :
                 (FetchLatest(since) /\ dash'.show) => dash'.who \notin since ]_vars

====
